---- MODULE Spec2Model ----
(***************************************************************************)
(* Model of the reconciliation engine of hp_frontend-new:                  *)
(* src/lib/deepseek.ts (class DataMatcher: findBestIndustry,               *)
(* findBestJobRole, getRelatedData, matchCompanyData).                     *)
(*                                                                         *)
(* JavaScript values are records tagged with their typeof; strings are     *)
(* sequences of one-character strings.  fuse.js and string-similarity are  *)
(* libraries outside the repository: what they answer is an environment    *)
(* choice (variable lib), fixed for a behaviour, ranging over the results  *)
(* their interfaces allow.                                                 *)
(***************************************************************************)
EXTENDS Integers, Sequences, FiniteSets, TLC

VARIABLES matcher, lib, call, ret, seen, original, csvData,
          csvDataCache, loads,
          form, localStorage, pending, log

\* the module state of a route and the loadCSVData calls it has running
serverVars == <<csvDataCache, loads>>

\* the state of a CompanyAnalysisForm, the browser's localStorage, the
\* effects and awaits of the component that have not run yet, and a history
\* of its handlers' calls
clientVars == <<form, localStorage, pending, log>>

vars == <<matcher, lib, call, ret, seen, original, csvData, serverVars,
          clientVars>>

----------------------------------------------------------------------------
(* Bounds of the model *)

\* longest CSV text handed to parseCSVData
MaxCsvLen == 6

\* longest industry table handed to the DataMatcher constructor
MaxIndustries == 2
\* longest job-role table handed to the DataMatcher constructor
MaxJobRoles == 2

----------------------------------------------------------------------------
(* JavaScript values *)

Undefined == [t |-> "undefined"]
Str(s) == [t |-> "string", s |-> s]
Num(n) == [t |-> "number", n |-> n]

IsString(v) == v.t = "string"

\* ToBoolean: undefined, "" and 0 are falsy
Truthy(v) ==
  CASE v.t = "string" -> Len(v.s) > 0
    [] v.t = "number" -> v.n # 0
    [] OTHER -> FALSE

\* Math.round on the rational num/den, den > 0: nearest integer, halves up
MathRound(num, den) == (2 * num + den) \div (2 * den)

\* String.prototype.trim on a sequence of characters
RECURSIVE TrimStart(_)
TrimStart(s) ==
  IF s # <<>> /\ Head(s) = " " THEN TrimStart(Tail(s)) ELSE s

RECURSIVE TrimEnd(_)
TrimEnd(s) ==
  IF s # <<>> /\ s[Len(s)] = " " THEN TrimEnd(SubSeq(s, 1, Len(s) - 1)) ELSE s

\* a term used as it came, white space and all
Untrimmed(s) == s

Trim(s) == TrimEnd(TrimStart(s))

\* String.prototype.toLowerCase on the letters the data and the labels use
LowerChar(c) ==
  CASE c = "A" -> "a"
    [] c = "D" -> "d"
    [] c = "G" -> "g"
    [] c = "H" -> "h"
    [] c = "M" -> "m"
    [] c = "E" -> "e"
    [] c = "F" -> "f"
    [] c = "P" -> "p"
    [] c = "R" -> "r"
    [] c = "S" -> "s"
    [] c = "T" -> "t"
    [] OTHER -> c

ToLowerCase(s) == [i \in 1..Len(s) |-> LowerChar(s[i])]

\* String.prototype.includes
Includes(s, sub) ==
  \E i \in 0..(Len(s) - Len(sub)) : \A j \in 1..Len(sub) : s[i + j] = sub[j]

\* the rows of a table that belong to the set keep, in the table's order
RECURSIVE SelectRows(_, _)
SelectRows(rows, keep) ==
  IF rows = <<>> THEN <<>>
  ELSE IF Head(rows) \in keep
       THEN <<Head(rows)>> \o SelectRows(Tail(rows), keep)
       ELSE SelectRows(Tail(rows), keep)

Range(rows) == {rows[i] : i \in 1..Len(rows)}

\* xs[0] of an array: undefined when the array is empty
First(rows) == IF rows = <<>> THEN Undefined ELSE rows[1]

\* a || b on row values
OrElse(a, b) == IF a = Undefined THEN b ELSE a

----------------------------------------------------------------------------
(* Reference rows the tables are drawn from.  A row whose name is          *)
(* undefined fails the constructor's shape validation; a name of one       *)
(* space passes it.                                                        *)

IndustryPool ==
  << [id |-> "3", industry_name |-> Undefined],
     [id |-> "1", industry_name |-> Str(<<"M", "e", "d">>)],
     [id |-> "2", industry_name |-> Str(<<"H", "e", "a">>)] >>

JobRolePool ==
  << [id |-> "12", industry_id |-> "2", role_name |-> Str(<<" ">>)],
     [id |-> "10", industry_id |-> "1", role_name |-> Str(<<"D", "e", "v">>)],
     [id |-> "11", industry_id |-> "1", role_name |-> Str(<<"G", "a", "m">>)] >>

SkillRows ==
  << [id |-> "100", jobrole_id |-> "10", skill_name |-> Str(<<"D", "A">>)],
     [id |-> "101", jobrole_id |-> "11", skill_name |-> Str(<<"G", "d">>)],
     [id |-> "102", jobrole_id |-> "10", skill_name |-> Undefined],
     [id |-> "103", jobrole_id |-> "12", skill_name |-> Str(<<"H">>)] >>

TaskRows ==
  << [id |-> "200", jobrole_id |-> "10", task_name |-> Str(<<"a">>)],
     [id |-> "201", jobrole_id |-> "11", task_name |-> Str(<<"g">>)],
     [id |-> "202", jobrole_id |-> "12", task_name |-> Str(<<"h">>)],
     [id |-> "203", jobrole_id |-> "11", task_name |-> Str(<<>>)] >>

SkillMapRows ==
  << [id |-> "300", skill_name |-> Str(<<"a">>), knowledge_area |-> Str(<<"m">>)],
     [id |-> "301", skill_name |-> Str(<<"a", "G", "D">>), knowledge_area |-> Str(<<"g">>)],
     [id |-> "302", skill_name |-> Str(<<"e">>), knowledge_area |-> Str(<<"e">>)] >>

MasterSkillRows ==
  << [id |-> "400", skill_name |-> Str(<<"d", "a", "M">>)],
     [id |-> "401", skill_name |-> Str(<<"h", "e">>)],
     [id |-> "402", skill_name |-> Undefined] >>

\* the sub-tables of a pool: rows kept in the pool's order, at most max of them
SubTables(pool, max) ==
  { SelectRows(pool, keep) : keep \in {k \in SUBSET Range(pool) : Cardinality(k) <= max} }

\* the reference tables a route hands to new DataMatcher(csvData)
CsvData ==
  { [industries |-> i, jobRoles |-> j, skills |-> SkillRows, tasks |-> TaskRows,
     skillMaps |-> SkillMapRows, masterSkills |-> MasterSkillRows] :
    i \in SubTables(IndustryPool, MaxIndustries),
    j \in SubTables(JobRolePool, MaxJobRoles) }

\* x && x.name && typeof x.name === 'string'
ValidName(v) == Truthy(v) /\ IsString(v)

\* constructor of DataMatcher: rows without a usable name are dropped
DataMatcher(data) ==
  [industries |-> SelectSeq(data.industries, LAMBDA r : ValidName(r.industry_name)),
   jobRoles |-> SelectSeq(data.jobRoles, LAMBDA r : ValidName(r.role_name)),
   skills |-> SelectSeq(data.skills, LAMBDA r : ValidName(r.skill_name)),
   tasks |-> SelectSeq(data.tasks, LAMBDA r : ValidName(r.task_name)),
   skillMaps |-> SelectSeq(data.skillMaps, LAMBDA r : ValidName(r.skill_name)),
   masterSkills |-> SelectSeq(data.masterSkills, LAMBDA r : ValidName(r.skill_name))]

----------------------------------------------------------------------------
(* The two matching libraries.  Scores and ratings are in thousandths.     *)

\* distances fuse.js may report for its best hit (0 is a perfect match)
FuseScores == {0, 255}
\* ratings string-similarity may report for its best match
Ratings == {200, 300, 305}

Libraries ==
  [fuseIndustries : BOOLEAN, fuseJobRoles : BOOLEAN, score : FuseScores,
   pick : {"first", "last"},
   sim : {[throws |-> TRUE, rating |-> 0]}
         \cup {[throws |-> FALSE, rating |-> r] : r \in Ratings}]

\* which element of a list of n candidates the library ranks best
PickIndex(n) == IF lib.pick = "first" THEN 1 ELSE n

\* new Fuse(list, {keys, threshold: 0.6, includeScore: true}).search(pattern):
\* the hits, best first (only the head and the length are read)
FuseSearch(list, keys, pattern) ==
  LET hits == IF keys[1] = "industry_name" THEN lib.fuseIndustries
                                          ELSE lib.fuseJobRoles
  IN IF hits /\ list # <<>>
     THEN << [item |-> list[PickIndex(Len(list))], score |-> lib.score] >>
     ELSE <<>>

\* stringSimilarity.findBestMatch(mainString, targetStrings)
FindBestMatch(mainString, targetStrings) ==
  IF lib.sim.throws \/ targetStrings = <<>>
  THEN [threw |-> TRUE]
  ELSE [threw |-> FALSE,
        bestMatch |-> [target |-> targetStrings[PickIndex(Len(targetStrings))],
                       rating |-> lib.sim.rating]]

----------------------------------------------------------------------------
(* class DataMatcher.  m is the instance (its six filtered tables).  A     *)
(* result carries threw (the call raised instead of returning) and two     *)
(* history fields: tier, the step of the ladder that produced it, and      *)
(* caught, whether the catch block ran.                                    *)

\* confidence of the final fallback of findBestIndustry
IndustryFallbackConfidence == 20
\* confidence of the final fallback of findBestJobRole
JobRoleFallbackConfidence == 15
\* rating a tier-2 industry match must exceed (0.3)
IndustryFloor == 300
\* rating a tier-2 job-role match must exceed (0.2)
JobRoleFloor == 200

\* the record findBestIndustry returns for an empty industry table
TechnologyStub == [id |-> "1", industry_name |-> Str(<<"T", "e", "c">>)]

\* names.filter(name => name && typeof name === 'string' && name.trim().length > 0)
RECURSIVE UsableNames(_)
UsableNames(names) ==
  IF names = <<>> THEN <<>>
  ELSE IF ValidName(Head(names)) /\ Len(Trim(Head(names).s)) > 0
       THEN <<Head(names).s>> \o UsableNames(Tail(names))
       ELSE UsableNames(Tail(names))

\* Math.round((1 - (bestMatch.score || 0)) * 100)
FuseConfidence(score) == MathRound((1000 - score) * 100, 1000)

\* Math.round(bestMatch.rating * 100)
RatingConfidence(rating) == MathRound(rating * 100, 1000)

\* a floor that a rating equal to it passes
AtLeastFloor(rating, floor) == rating >= floor

\* bestMatch.rating > 0.3, bestMatch.rating > 0.2
ExceedsFloor(rating, floor) == rating > floor

\* a value returned by findBestIndustry
IndustryResult(industry, confidence, tier, caught) ==
  [threw |-> FALSE, industry |-> industry, confidence |-> confidence,
   tier |-> tier, caught |-> caught]

\* a value returned by findBestJobRole
JobRoleResult(jobRole, confidence, tier, caught) ==
  [threw |-> FALSE, jobRole |-> jobRole, confidence |-> confidence,
   tier |-> tier, caught |-> caught]

\* an exception leaving the call
Thrown == [threw |-> TRUE]

\* tier 2 of findBestIndustry without its try/catch: the exception leaves
IndustrySimilarityUncaught(m, cleanSearchTerm) ==
  LET industryNames == UsableNames([i \in 1..Len(m.industries) |->
                                      m.industries[i].industry_name])
      fallback == IndustryResult(First(m.industries), IndustryFallbackConfidence,
                                 "fallback", FALSE)
  IN IF industryNames = <<>> THEN fallback
     ELSE LET matches == FindBestMatch(cleanSearchTerm, industryNames) IN
          IF matches.threw THEN Thrown
          ELSE LET bestMatch == matches.bestMatch
                   industry == First(SelectSeq(m.industries,
                                 LAMBDA i : i.industry_name = Str(bestMatch.target)))
               IN IF ExceedsFloor(bestMatch.rating, IndustryFloor)
                     /\ industry # Undefined
                  THEN IndustryResult(industry, RatingConfidence(bestMatch.rating),
                                      "similarity", FALSE)
                  ELSE fallback

\* tier 2 and the final fallback of findBestIndustry
IndustrySimilarity(m, cleanSearchTerm) ==
  LET industryNames == UsableNames([i \in 1..Len(m.industries) |->
                                      m.industries[i].industry_name])
      fallback(c) == IndustryResult(First(m.industries), IndustryFallbackConfidence,
                                    "fallback", c)
  IN IF industryNames = <<>> THEN fallback(FALSE)
     ELSE LET matches == FindBestMatch(cleanSearchTerm, industryNames) IN
          IF matches.threw THEN fallback(TRUE)
          ELSE LET bestMatch == matches.bestMatch
                   industry == First(SelectSeq(m.industries,
                                 LAMBDA i : i.industry_name = Str(bestMatch.target)))
               IN IF ExceedsFloor(bestMatch.rating, IndustryFloor)
                     /\ industry # Undefined
                  THEN IndustryResult(industry, RatingConfidence(bestMatch.rating),
                                      "similarity", FALSE)
                  ELSE fallback(FALSE)

FindBestIndustry(m, searchTerm) ==
  IF ~Truthy(searchTerm) \/ ~IsString(searchTerm) \/ Len(m.industries) = 0
  THEN IndustryResult(OrElse(First(m.industries), TechnologyStub), 0, "guard", FALSE)
  ELSE LET cleanSearchTerm == Trim(searchTerm.s) IN
       IF cleanSearchTerm = <<>>
       THEN IndustryResult(First(m.industries), 0, "guard", FALSE)
       ELSE LET results == FuseSearch(m.industries,
                                      <<"industry_name", "description">>,
                                      cleanSearchTerm)
            IN IF Len(results) > 0
               THEN IndustryResult(results[1].item, FuseConfidence(results[1].score),
                                   "fuse", FALSE)
               ELSE IndustrySimilarity(m, cleanSearchTerm)

\* the whole table consulted before the roles of the industry
FallbackJobRoleSwapped(m, industryRoles) ==
  OrElse(First(m.jobRoles), First(industryRoles))

\* the last row of the table as the last resort instead of the first
FallbackJobRoleLast(m, industryRoles) ==
  OrElse(First(industryRoles),
         IF m.jobRoles = <<>> THEN Undefined ELSE m.jobRoles[Len(m.jobRoles)])

\* industryRoles[0] || this.jobRoles[0]
FallbackJobRole(m, industryRoles) ==
  OrElse(First(industryRoles), First(m.jobRoles))

\* the guard clauses answering with the confidence of the final fallback
GuardConfidenceAsFallback == JobRoleFallbackConfidence

\* confidence of the guard clauses of findBestJobRole
JobRoleGuardConfidence == 0

\* tier 2 and the final fallback of findBestJobRole
JobRoleSimilarity(m, industryRoles, cleanSearchTerm) ==
  LET roleNames == UsableNames([i \in 1..Len(industryRoles) |->
                                  industryRoles[i].role_name])
      fallback(c) == JobRoleResult(FallbackJobRole(m, industryRoles),
                                   JobRoleFallbackConfidence, "fallback", c)
  IN IF roleNames = <<>> THEN fallback(FALSE)
     ELSE LET matches == FindBestMatch(cleanSearchTerm, roleNames) IN
          IF matches.threw THEN fallback(TRUE)
          ELSE LET bestMatch == matches.bestMatch
                   jobRole == First(SelectSeq(industryRoles,
                                LAMBDA jr : jr.role_name = Str(bestMatch.target)))
               IN IF ExceedsFloor(bestMatch.rating, JobRoleFloor)
                     /\ jobRole # Undefined
                  THEN JobRoleResult(jobRole, RatingConfidence(bestMatch.rating),
                                     "similarity", FALSE)
                  ELSE fallback(FALSE)

\* the roster not narrowed to the industry
AllRoles(m, industryId) == m.jobRoles

\* this.jobRoles.filter(jr => jr.industry_id === industryId)
IndustryRoles(m, industryId) ==
  SelectSeq(m.jobRoles, LAMBDA jr : jr.industry_id = industryId)

FindBestJobRole(m, searchTerm, industryId) ==
  LET industryRoles == IndustryRoles(m, industryId) IN
  IF ~Truthy(searchTerm) \/ ~IsString(searchTerm) \/ Len(industryRoles) = 0
  THEN JobRoleResult(FallbackJobRole(m, industryRoles), JobRoleGuardConfidence,
                     "guard", FALSE)
  ELSE LET cleanSearchTerm == Trim(searchTerm.s) IN
       IF cleanSearchTerm = <<>>
       THEN JobRoleResult(FallbackJobRole(m, industryRoles), JobRoleGuardConfidence,
                          "guard", FALSE)
       ELSE LET results == FuseSearch(industryRoles,
                              <<"role_name", "description", "department", "sub_department">>,
                              cleanSearchTerm)
            IN IF Len(results) > 0
               THEN JobRoleResult(results[1].item, FuseConfidence(results[1].score),
                                  "fuse", FALSE)
               ELSE JobRoleSimilarity(m, industryRoles, cleanSearchTerm)

\* containment tested in one direction only
SkillNameContains(sn, x) == Includes(ToLowerCase(sn), ToLowerCase(x))

\* sn.toLowerCase().includes(x.toLowerCase()) || x.toLowerCase().includes(sn.toLowerCase())
NamesOverlap(sn, x) ==
  LET a == ToLowerCase(sn)
      b == ToLowerCase(x)
  IN Includes(a, b) \/ Includes(b, a)

GetRelatedData(m, jobRoleId) ==
  LET skills == SelectSeq(m.skills, LAMBDA s : s.jobrole_id = jobRoleId)
      tasks == SelectSeq(m.tasks, LAMBDA t : t.jobrole_id = jobRoleId)
      skillNames == {s.skill_name.s : s \in {r \in Range(skills) : ValidName(r.skill_name)}}
  IN [skills |-> skills,
      tasks |-> tasks,
      knowledgeAreas |-> SelectSeq(m.skillMaps,
         LAMBDA sm : \E sn \in skillNames : NamesOverlap(sn, sm.skill_name.s)),
      masterSkills |-> SelectSeq(m.masterSkills,
         LAMBDA ms : \E sn \in skillNames : NamesOverlap(sn, ms.skill_name.s))]

\* the two confidences added, not averaged
OverallConfidenceSum(industryConfidence, jobRoleConfidence) ==
  industryConfidence + jobRoleConfidence

\* the average truncated (Math.floor) instead of rounded
OverallConfidenceTruncated(industryConfidence, jobRoleConfidence) ==
  (industryConfidence + jobRoleConfidence) \div 2

\* Math.round((industryConfidence + jobRoleConfidence) / 2)
OverallConfidence(industryConfidence, jobRoleConfidence) ==
  MathRound(industryConfidence + jobRoleConfidence, 2)

\* The outcome of matchCompanyData.  An exception of either matcher call
\* leaves matchCompanyData too, and so does the TypeError of reading .id of
\* an undefined job role.  byIndustry and byJobRole are the outcomes of the
\* two matcher calls (byJobRole is NotCalled when the first one threw).
NotCalled == [threw |-> FALSE, tier |-> "none"]

MatchCompanyData(m, industrySearch, jobRoleSearch) ==
  LET byIndustry == FindBestIndustry(m, industrySearch) IN
  IF byIndustry.threw
  THEN [threw |-> TRUE, byIndustry |-> byIndustry, byJobRole |-> NotCalled]
  ELSE
  LET industry == byIndustry.industry
      byJobRole == FindBestJobRole(m, jobRoleSearch, industry.id)
  IN IF byJobRole.threw \/ byJobRole.jobRole = Undefined
     THEN [threw |-> TRUE, byIndustry |-> byIndustry, byJobRole |-> byJobRole]
     ELSE LET jobRole == byJobRole.jobRole
              industryJobRoles == IndustryRoles(m, industry.id)
              relatedData == GetRelatedData(m, jobRole.id)
          IN [threw |-> FALSE, byIndustry |-> byIndustry, byJobRole |-> byJobRole,
              value |-> [industry |-> industry,
                         jobRoles |-> industryJobRoles,
                         skills |-> relatedData.skills,
                         tasks |-> relatedData.tasks,
                         knowledgeAreas |-> relatedData.knowledgeAreas,
                         masterSkills |-> relatedData.masterSkills,
                         confidence |-> OverallConfidence(byIndustry.confidence,
                                                          byJobRole.confidence)]]


----------------------------------------------------------------------------
(* The oracle call and the offline heuristic: analyzeCompanyWithDeepSeek   *)
(* and createFallbackResponse.  A URL is a string whose first symbol is    *)
(* the scheme with its separator and whose rest is the host.  What the     *)
(* oracle answers is an environment choice made per request.               *)

Https == "https://"

\* a parser that takes any non-empty string for a URL
NewURLAnyString(websiteUrl) ==
  IF IsString(websiteUrl) /\ Len(websiteUrl.s) >= 2
  THEN [threw |-> FALSE, hostname |-> ToLowerCase(Tail(websiteUrl.s))]
  ELSE [threw |-> TRUE]

\* new URL(websiteUrl): throws unless the string is an absolute URL
NewURL(websiteUrl) ==
  IF IsString(websiteUrl) /\ Len(websiteUrl.s) >= 2 /\ websiteUrl.s[1] = Https
  THEN [threw |-> FALSE, hostname |-> ToLowerCase(Tail(websiteUrl.s))]
  ELSE [threw |-> TRUE]

\* one keyword rule: the labels chosen when the domain includes a keyword
Rule(keywords, industry, jobRole) ==
  [keywords |-> keywords, industry |-> Str(industry), jobRole |-> Str(jobRole)]

Technology == <<"T", "e", "c", "h", "n", "o", "l", "o", "g", "y">>
SoftwareEngineer == <<"S", "o", "f", "t", "w", "a", "r", "e", " ", "E", "n", "g", "i", "n", "e", "e", "r">>
Healthcare == <<"H", "e", "a", "l", "t", "h", "c", "a", "r", "e">>
HealthcareProfessional == <<"H", "e", "a", "l", "t", "h", "c", "a", "r", "e", " ", "P", "r", "o", "f", "e", "s", "s", "i", "o", "n", "a", "l">>
Finance == <<"F", "i", "n", "a", "n", "c", "e">>
FinancialAnalyst == <<"F", "i", "n", "a", "n", "c", "i", "a", "l", " ", "A", "n", "a", "l", "y", "s", "t">>
Education == <<"E", "d", "u", "c", "a", "t", "i", "o", "n">>
Teacher == <<"T", "e", "a", "c", "h", "e", "r">>
Retail == <<"R", "e", "t", "a", "i", "l">>
SalesManager == <<"S", "a", "l", "e", "s", " ", "M", "a", "n", "a", "g", "e", "r">>
Media == <<"M", "e", "d", "i", "a">>
GameDeveloper == <<"G", "a", "m", "e", " ", "D", "e", "v", "e", "l", "o", "p", "e", "r">>

\* the if / else-if chain of createFallbackResponse
HeuristicRules ==
  << Rule({<<"h", "e", "a", "l", "t", "h">>, <<"m", "e", "d", "i", "c", "a", "l">>, <<"c", "l", "i", "n", "i", "c">>}, Healthcare, HealthcareProfessional),
     Rule({<<"b", "a", "n", "k">>, <<"f", "i", "n", "a", "n", "c", "e">>, <<"i", "n", "v", "e", "s", "t">>}, Finance, FinancialAnalyst),
     Rule({<<"e", "d", "u">>, <<"s", "c", "h", "o", "o", "l">>, <<"u", "n", "i", "v", "e", "r", "s", "i", "t", "y">>}, Education, Teacher),
     Rule({<<"s", "h", "o", "p">>, <<"s", "t", "o", "r", "e">>, <<"r", "e", "t", "a", "i", "l">>}, Retail, SalesManager),
     Rule({<<"g", "a", "m", "e">>, <<"g", "a", "m", "i", "n", "g">>, <<"r", "o", "c", "k", "s", "t", "a", "r">>}, Media, GameDeveloper) >>

\* the if / else-if chain of the catch block of the analyze-company route
RouteRules ==
  << Rule({<<"h", "e", "a", "l", "t", "h">>, <<"m", "e", "d", "i", "c", "a", "l">>}, Healthcare, HealthcareProfessional),
     Rule({<<"b", "a", "n", "k">>, <<"f", "i", "n", "a", "n", "c", "e">>}, Finance, FinancialAnalyst),
     Rule({<<"e", "d", "u">>, <<"s", "c", "h", "o", "o", "l">>}, Education, Teacher),
     Rule({<<"g", "a", "m", "e">>, <<"g", "a", "m", "i", "n", "g">>, <<"r", "o", "c", "k", "s", "t", "a", "r">>}, Media, GameDeveloper) >>

\* let industry = 'Technology'; let jobRole = 'Software Engineer'
DefaultRule == Rule({}, Technology, SoftwareEngineer)

\* the first rule of the chain with a keyword the domain includes
RECURSIVE FirstRule(_, _)
FirstRule(domain, rules) ==
  IF rules = <<>> THEN DefaultRule
  ELSE IF \E k \in Head(rules).keywords : Includes(domain, k)
       THEN Head(rules)
       ELSE FirstRule(domain, Tail(rules))

\* confidence of the heuristic when the oracle gave no content
HeuristicConfidence == 30
\* confidence of the heuristic when the oracle's content could not be used
HeuristicConfidenceWithContent == 60
\* confidence of the analysis built in the catch block of the route
RouteFallbackConfidence == 30

\* a heuristic with the two confidences the other way round
CreateFallbackResponseSwapped(hasContent, websiteUrl) ==
  LET domain == ToLowerCase(NewURL(websiteUrl).hostname)
      rule == FirstRule(domain, HeuristicRules)
  IN [industry |-> rule.industry, jobRole |-> rule.jobRole,
      confidence |-> Num(IF hasContent THEN HeuristicConfidence
                                       ELSE HeuristicConfidenceWithContent),
      path |-> "heuristic"]

\* createFallbackResponse(content, websiteUrl); content is '' or a text
CreateFallbackResponse(hasContent, websiteUrl) ==
  LET domain == ToLowerCase(NewURL(websiteUrl).hostname)
      rule == FirstRule(domain, HeuristicRules)
  IN [industry |-> rule.industry, jobRole |-> rule.jobRole,
      confidence |-> Num(IF hasContent THEN HeuristicConfidenceWithContent
                                       ELSE HeuristicConfidence),
      path |-> "heuristic"]

\* analyzeCompanyWithDeepSeek(websiteUrl) when the oracle answers reply:
\*   network  fetch rejects              status  response.ok is false
\*   empty    no content in the reply    text    content without a JSON object
\*   badjson  JSON.parse throws          json    content holds a JSON object
AnalyzeCompanyWithDeepSeek(websiteUrl, reply) ==
  IF reply.kind \in {"network", "status", "empty"}
  THEN CreateFallbackResponse(FALSE, websiteUrl)
  ELSE IF reply.kind \in {"text", "badjson"}
  THEN CreateFallbackResponse(TRUE, websiteUrl)
  ELSE IF ~Truthy(reply.industry) \/ ~Truthy(reply.jobRole)
  THEN CreateFallbackResponse(TRUE, websiteUrl)
  ELSE [industry |-> reply.industry, jobRole |-> reply.jobRole,
        confidence |-> reply.confidence, path |-> "oracle"]

----------------------------------------------------------------------------
(* The two routes.  csvData is what loadCSVData returns: the parsed CSV     *)
(* files, the same for every request of a behaviour.  A response carries   *)
(* its status and a history field steps: what the handler did before it    *)
(* answered.                                                               *)

Min(a, b) == IF a <= b THEN a ELSE b

\* the number value NaN
NaN == [t |-> "NaN"]

\* ToNumber of a JavaScript value; the strings of the model hold no numeral
ToNumber(v) == IF v.t = "number" THEN v ELSE NaN

\* Math.min(a, n) of a JavaScript value and a number: NaN when either is
MathMin(a, n) ==
  IF ToNumber(a) = NaN THEN NaN ELSE Num(Min(ToNumber(a).n, n))

ErrorResponse(status, error, steps) ==
  [status |-> status, error |-> error, steps |-> steps]

\* responseData of the analyze-company route
AnalysisResponse(deepSeekResponse, matchedData, industryToMatch, reply) ==
  [status |-> 200,
   steps |-> {"loadCSVData", "oracle", "matchCompanyData"},
   reply |-> reply,
   fed |-> industryToMatch,
   analysis |-> deepSeekResponse,
   matches |-> [industry |-> matchedData.value.industry,
                jobRoles |-> matchedData.value.jobRoles,
                primaryJobRole |-> First(matchedData.value.jobRoles),
                skills |-> matchedData.value.skills,
                tasks |-> matchedData.value.tasks,
                knowledgeAreas |-> matchedData.value.knowledgeAreas,
                masterSkills |-> matchedData.value.masterSkills],
   matched |-> matchedData.value.confidence,
   confidence |-> MathMin(deepSeekResponse.confidence, matchedData.value.confidence)]

\* POST of src/app/api/analyze-company/route.ts
AnalyzeCompanyPOST(websiteUrl, reply) ==
  IF ~Truthy(websiteUrl)
  THEN ErrorResponse(400, "Website URL is required", {})
  ELSE IF NewURL(websiteUrl).threw
  THEN ErrorResponse(400, "Invalid URL format", {})
  ELSE
  LET m == DataMatcher(csvData)
      deepSeekResponse == AnalyzeCompanyWithDeepSeek(websiteUrl, reply)
      lower == ToLowerCase(deepSeekResponse.industry.s)
      industryToMatch ==
        IF \/ Includes(lower, <<"g", "a", "m", "e">>)
           \/ Includes(lower, <<"g", "a", "m", "i", "n", "g">>)
           \/ Includes(lower, <<"v", "i", "d", "e", "o">>)
        THEN Str(Media)
        ELSE deepSeekResponse.industry
      tried == IF ~IsString(deepSeekResponse.industry)
               THEN Thrown
               ELSE MatchCompanyData(m, industryToMatch, deepSeekResponse.jobRole)
  IN IF ~tried.threw
     THEN AnalysisResponse(deepSeekResponse, tried, industryToMatch, reply)
     ELSE
     LET domain == ToLowerCase(NewURL(websiteUrl).hostname)
         rule == FirstRule(domain, RouteRules)
         matchedData == MatchCompanyData(m, rule.industry, rule.jobRole)
     IN IF matchedData.threw
        THEN [status |-> 500, error |-> "Failed to analyze company",
              steps |-> {"loadCSVData", "oracle", "matchCompanyData"},
              reply |-> reply]
        ELSE AnalysisResponse([industry |-> rule.industry, jobRole |-> rule.jobRole,
                               confidence |-> Num(RouteFallbackConfidence),
                               path |-> "route"],
                              matchedData, rule.industry, reply)

\* a job role found by findBestJobRole replaces the first one of the
\* industry only above this confidence
UpdateConfidenceFloor == 20

\* a request value that is an id string
Id(id) == [t |-> "id", id |-> id]
\* a request value that is an object with a jobRole property
Analysis(jobRole) == [t |-> "object", jobRole |-> jobRole]

\* POST of src/app/api/update-analysis/route.ts
UpdateAnalysisPOST(industryId, originalAnalysis) ==
  IF industryId = Undefined
  THEN ErrorResponse(400, "Industry ID is required", {})
  ELSE
  LET m == DataMatcher(csvData)
      found == SelectSeq(csvData.industries, LAMBDA i : i.id = industryId.id)
      industryJobRoles ==
        SelectSeq(csvData.jobRoles, LAMBDA jr : jr.industry_id = industryId.id)
      failed(steps) == ErrorResponse(500, "Failed to update analysis", steps)
  IN IF found = <<>>
     THEN ErrorResponse(404, "Industry not found", {"loadCSVData"})
     ELSE IF originalAnalysis = Undefined
     THEN failed({"loadCSVData"})
     ELSE
     LET selectedIndustry == found[1]
         asked == Truthy(originalAnalysis.jobRole) /\ Len(industryJobRoles) > 0
         better == FindBestJobRole(m, originalAnalysis.jobRole, industryId.id)
         bestJobRole ==
           IF asked /\ better.jobRole # Undefined
                    /\ better.confidence > UpdateConfidenceFloor
           THEN better.jobRole
           ELSE First(industryJobRoles)
         steps == IF asked THEN {"loadCSVData", "findBestJobRole"}
                           ELSE {"loadCSVData"}
     IN IF asked /\ better.threw
        THEN failed(steps)
        ELSE IF bestJobRole = Undefined
        THEN failed(steps)
        ELSE
        LET matchedData ==
              MatchCompanyData(m, selectedIndustry.industry_name,
                               IF Truthy(bestJobRole.role_name)
                               THEN bestJobRole.role_name
                               ELSE originalAnalysis.jobRole)
        IN IF matchedData.threw
           THEN failed(steps \cup {"matchCompanyData"})
           ELSE [status |-> 200, steps |-> steps \cup {"matchCompanyData"},
                 body |-> matchedData.value]

----------------------------------------------------------------------------
(* parseCSVData.  A CSV text is a sequence of characters; a parsed row is   *)
(* a function from the header names to the values of the row.              *)

WhiteSpace == {" ", "\n"}

\* String.prototype.trim on a text that may hold line breaks
RECURSIVE TrimWhite(_)
TrimWhite(s) ==
  IF s # <<>> /\ Head(s) \in WhiteSpace THEN TrimWhite(Tail(s))
  ELSE IF s # <<>> /\ s[Len(s)] \in WhiteSpace
       THEN TrimWhite(SubSeq(s, 1, Len(s) - 1))
       ELSE s

\* String.prototype.split(sep) for a one-character separator
RECURSIVE Split(_, _)
Split(s, sep) ==
  IF \A i \in 1..Len(s) : s[i] # sep
  THEN <<s>>
  ELSE LET i == CHOOSE k \in 1..Len(s) :
                  s[k] = sep /\ \A j \in 1..(k - 1) : s[j] # sep
       IN <<SubSeq(s, 1, i - 1)>> \o Split(SubSeq(s, i + 1, Len(s)), sep)

\* a missing field left undefined
PaddedWithUndefined(values, index) ==
  IF index <= Len(values) THEN Str(values[index]) ELSE Undefined

\* typeof values[index] !== 'undefined' ? values[index] : ''
Padded(values, index) ==
  IF index <= Len(values) THEN Str(values[index]) ELSE Str(<<>>)

\* headers.forEach((header, index) => row[header] = ...): a header name that
\* comes twice keeps the value of its last column
RowOf(headers, values) ==
  [h \in Range(headers) |->
     LET index == CHOOSE i \in 1..Len(headers) :
                    headers[i] = h /\ \A j \in (i + 1)..Len(headers) : headers[j] # h
     IN Padded(values, index)]

\* parseCSVData(csvContent)
ParseCSVData(csvContent) ==
  IF ~Truthy(csvContent) \/ ~IsString(csvContent)
  THEN [threw |-> FALSE, rows |-> <<>>]
  ELSE
  LET lines == SelectSeq(Split(TrimWhite(csvContent.s), "\n"),
                         LAMBDA line : line # <<>> /\ TrimWhite(line) # <<>>)
  IN IF Len(lines) < 2
     THEN [threw |-> FALSE, rows |-> <<>>]
     ELSE
     LET trimAll(fields) == [i \in 1..Len(fields) |-> TrimWhite(fields[i])]
         headers == trimAll(Split(lines[1], ","))
         rowAt(i) == RowOf(headers, trimAll(Split(TrimWhite(lines[i]), ",")))
         hasData(row) == \E h \in DOMAIN row : Truthy(row[h]) /\ row[h] # Str(<<>>)
         kept == SelectSeq([i \in 1..(Len(lines) - 1) |-> i + 1],
                           LAMBDA i : TrimWhite(lines[i]) # <<>> /\ hasData(rowAt(i)))
     IN [threw |-> FALSE, rows |-> [k \in 1..Len(kept) |-> rowAt(kept[k])]]

----------------------------------------------------------------------------
(* The calls a client of one DataMatcher instance makes *)

\* labels handed to the matcher: a non-string, the empty string, a blank
\* string, and a text that needs trimming
Labels ==
  { Num(7), Str(<<>>), Str(<<" ">>), Str(<<" ", "g", " ">>) }

\* industry ids handed to findBestJobRole
IndustryIds == {"1", "2"}

NoCall == [op |-> "none"]

\* let csvDataCache = null
Null == [t |-> "null"]

\* a route module as loaded: nothing cached, no loadCSVData call running
\* each route module has a csvDataCache of its own
RouteNames == {"analyze-company", "update-analysis"}

\* no CompanyAnalysisForm is mounted
NoForm == [op |-> "noform"]

NoClient ==
  /\ form = NoForm
  /\ localStorage = NoForm
  /\ pending = {}
  /\ log = NoForm

NoServer ==
  /\ csvDataCache = [route \in RouteNames |-> Null]
  /\ loads = <<>>

\* no CSV file is read where the matcher is used without the routes
NoFiles == [op |-> "nofiles"]

\* seen is a history variable: the first matchCompanyData call of the
\* instance with its result and the tables it ran on, and whether calls
\* followed it.  Unobserved switches the record off.
Unobserved == [op |-> "unobserved"]

Observed(c, r) ==
  IF seen = Unobserved THEN seen
  ELSE IF seen = NoCall
       THEN IF c.op = "matchCompanyData"
            THEN [op |-> "seen", call |-> c, ret |-> r, matcher |-> matcher,
                  later |-> "none"]
            ELSE seen
       ELSE [seen EXCEPT !.later = IF @ = "none" THEN "one" ELSE "more"]

Init ==
  /\ matcher \in {DataMatcher(data) : data \in CsvData}
  /\ lib \in Libraries
  /\ call = NoCall
  /\ ret = NoCall
  /\ seen = Unobserved
  /\ original = NoCall
  /\ csvData = NoFiles
  /\ NoServer
  /\ NoClient

CallFindBestIndustry ==
  \E searchTerm \in Labels :
    /\ call' = [op |-> "findBestIndustry", searchTerm |-> searchTerm]
    /\ ret' = FindBestIndustry(matcher, searchTerm)
    /\ seen' = Observed(call', ret')
    /\ UNCHANGED <<matcher, lib, original, csvData, serverVars, clientVars>>

\* a findBestJobRole that sorts the instance's table in place
FindBestJobRoleReordering ==
  \E searchTerm \in Labels, industryId \in IndustryIds :
    /\ call' = [op |-> "findBestJobRole", searchTerm |-> searchTerm,
                industryId |-> industryId]
    /\ ret' = FindBestJobRole(matcher, searchTerm, industryId)
    /\ seen' = Observed(call', ret')
    /\ matcher' = [matcher EXCEPT !.jobRoles =
                     [i \in 1..Len(@) |-> @[Len(@) + 1 - i]]]
    /\ UNCHANGED <<lib, original, csvData, serverVars, clientVars>>

CallFindBestJobRole ==
  \E searchTerm \in Labels, industryId \in IndustryIds :
    /\ call' = [op |-> "findBestJobRole", searchTerm |-> searchTerm,
                industryId |-> industryId]
    /\ ret' = FindBestJobRole(matcher, searchTerm, industryId)
    /\ seen' = Observed(call', ret')
    /\ UNCHANGED <<matcher, lib, original, csvData, serverVars, clientVars>>

CallMatchCompanyData ==
  \E industrySearch \in Labels, jobRoleSearch \in Labels :
    /\ call' = [op |-> "matchCompanyData", industrySearch |-> industrySearch,
                jobRoleSearch |-> jobRoleSearch]
    /\ ret' = MatchCompanyData(matcher, industrySearch, jobRoleSearch)
    /\ seen' = Observed(call', ret')
    /\ UNCHANGED <<matcher, lib, original, csvData, serverVars, clientVars>>

Next ==
  \/ CallFindBestIndustry
  \/ CallFindBestJobRole
  \/ CallMatchCompanyData

Spec == Init /\ [][Next]_vars

\* One instance watched from its first matchCompanyData call on: full
\* tables, and libraries that answer with a distant hit or none, and with
\* a rating above both floors or an exception.
SnapshotLibraries ==
  {l \in Libraries :
     /\ l.score = 255 /\ l.pick = "last" /\ l.fuseIndustries = l.fuseJobRoles
     /\ (l.sim.throws \/ l.sim.rating = 305)}

SnapshotInit ==
  /\ matcher \in {DataMatcher(data) :
                     data \in {d \in CsvData : /\ Len(d.industries) = MaxIndustries
                                                /\ Len(d.jobRoles) = MaxJobRoles}}
  /\ lib \in SnapshotLibraries
  /\ call = NoCall
  /\ ret = NoCall
  /\ seen = NoCall
  /\ original = NoCall
  /\ csvData = NoFiles
  /\ NoServer
  /\ NoClient

SpecSnapshot == SnapshotInit /\ [][Next]_vars

----------------------------------------------------------------------------
(* The requests the two routes serve.  original is a history variable: the *)
(* last analysis the analyze-company route answered with, which is what    *)
(* the form sends back to update-analysis.                                 *)

\* rows as parseCSVData builds them: a missing value is the empty string
RouteIndustries == << IndustryPool[3], IndustryPool[2] >>

RouteJobRolePool ==
  << [id |-> "13", industry_id |-> "1", role_name |-> Str(<<>>)],
     JobRolePool[2], JobRolePool[3] >>

RouteCsvData ==
  { [industries |-> RouteIndustries, jobRoles |-> j, skills |-> SkillRows,
     tasks |-> TaskRows, skillMaps |-> SkillMapRows,
     masterSkills |-> MasterSkillRows] :
    j \in SubTables(RouteJobRolePool, MaxJobRoles) }

\* websiteUrl of a request: absent, empty, not an absolute URL, and URLs
\* whose hosts meet one keyword, two keywords of different rules, or none
WebsiteUrls ==
  { Undefined, Str(<<>>), Str(<<"s", "h", "o", "p">>),
    Str(<<Https>> \o <<"s", "h", "o", "p">>),
    Str(<<Https>> \o <<"c", "l", "i", "n", "i", "c", "b", "a", "n", "k">>),
    Str(<<Https>> \o <<"h", "e", "a", "l", "t", "h", "b", "a", "n", "k">>),
    Str(<<Https>> \o <<"a", "c", "m", "e">>) }

\* what the oracle answers to one request; a JSON reply may come without
\* confidence, or with one that is a text or lies outside 0..100
OracleReplies ==
  { [kind |-> k] : k \in {"network", "status", "empty", "text", "badjson"} }
  \cup
  { [kind |-> "json", industry |-> r[1], jobRole |-> r[2], confidence |-> Num(85)] :
    r \in { <<Undefined, Str(<<"D", "e", "v">>)>>,
            <<Str(<<"M", "e", "d">>), Undefined>>,
            <<Num(5), Str(<<"D", "e", "v">>)>>,
            <<Str(<<"G", "a", "m", "i", "n", "g">>), Str(<<"D", "e", "v">>)>>,
            <<Str(<<"M", "e", "d">>), Str(<<"x">>)>>,
            <<Str(<<"H", "e", "a">>), Str(<<"D", "e", "v">>)>> } }
  \cup
  { [kind |-> "json", industry |-> Str(<<"M", "e", "d">>), jobRole |-> Str(<<"D", "e", "v">>), confidence |-> c] :
    c \in { Undefined, Str(<<"h", "i", "g", "h">>), Num(0 - 5), Num(150) } }

\* industryId of an update-analysis request: absent, known, unknown
UpdateIds == { Undefined, Id("1"), Id("2"), Id("9") }

RoutesInit ==
  /\ csvData \in RouteCsvData
  /\ matcher = DataMatcher(csvData)
  /\ lib \in SnapshotLibraries
  /\ call = NoCall
  /\ ret = NoCall
  /\ seen = Unobserved
  /\ original = NoCall
  /\ NoServer
  /\ NoClient

AnalyzeCompany ==
  \E websiteUrl \in WebsiteUrls, reply \in OracleReplies :
    /\ call' = [op |-> "analyzeCompany", websiteUrl |-> websiteUrl]
    /\ ret' = AnalyzeCompanyPOST(websiteUrl, reply)
    /\ original' = IF ret'.status = 200
                   THEN [op |-> "analysis",
                         analysis |-> Analysis(ret'.analysis.jobRole),
                         matches |-> ret'.matches]
                   ELSE original
    /\ UNCHANGED <<matcher, lib, seen, csvData, serverVars, clientVars>>

UpdateAnalysis ==
  \E industryId \in UpdateIds :
    \E originalAnalysis \in
         {Undefined, Analysis(Undefined)}
         \cup (IF original = NoCall THEN {} ELSE {original.analysis}) :
      /\ call' = [op |-> "updateAnalysis", industryId |-> industryId,
                  originalAnalysis |-> originalAnalysis]
      /\ ret' = UpdateAnalysisPOST(industryId, originalAnalysis)
      /\ UNCHANGED <<matcher, lib, seen, original, csvData, serverVars, clientVars>>

RoutesNext ==
  \/ AnalyzeCompany
  \/ UpdateAnalysis

SpecRoutes == RoutesInit /\ [][RoutesNext]_vars

----------------------------------------------------------------------------
(* parseCSVData applied to the texts of at most MaxCsvLen characters *)

CsvChars == {"a", ",", "\n", " "}

RECURSIVE Texts(_)
Texts(n) ==
  IF n = 0 THEN {<<>>}
  ELSE LET shorter == Texts(n - 1)
       IN shorter \cup {Append(t, c) : t \in shorter, c \in CsvChars}

\* csvContent: a value that is not a string, or a text
CsvContents == {Undefined, Num(7)} \cup {Str(t) : t \in Texts(MaxCsvLen)}

NoMatcher == [op |-> "nomatcher"]

CsvInit ==
  /\ matcher = NoMatcher
  /\ lib = NoMatcher
  /\ call \in {[op |-> "parseCSVData", csvContent |-> c] : c \in CsvContents}
  /\ ret = NoCall
  /\ seen = Unobserved
  /\ original = NoCall
  /\ csvData = NoFiles
  /\ NoServer
  /\ NoClient

CallParseCSVData ==
  /\ call.op = "parseCSVData" /\ ret = NoCall
  /\ ret' = ParseCSVData(call.csvContent)
  /\ UNCHANGED <<matcher, lib, call, seen, original, csvData, serverVars, clientVars>>

SpecCsv == CsvInit /\ [][CallParseCSVData]_vars

\* ---------------------------------------------------------------------
\* loadCSVData: the reference cache of a route.  The six files keep their
\* content for the life of the process (csvData); whether a read of them
\* succeeds is the environment's choice at every read.
\* ---------------------------------------------------------------------

MaxRequests == 3

LoadFailureStatus == 500

\* the object  { industries: parseCSVData(...), ... }  built by load `by`
Snapshot(tables, by) == [t |-> "object", tables |-> tables, by |-> by]

LoadCSVDataAlwaysReads(cache) ==
  [read |-> TRUE, result |-> Null]

\* if (csvDataCache) return csvDataCache;  else the six fs.readFile calls
LoadCSVDataStart(cache) ==
  IF cache # Null THEN [read |-> FALSE, result |-> cache]
  ELSE [read |-> TRUE, result |-> Null]

\* csvDataCache = { ... }; return csvDataCache;
LoadCSVDataTry(cache, tables, by) == Snapshot(tables, by)

LoadCSVDataCatchKeepsPartial(cache, tables, by) ==
  Snapshot([tables EXCEPT !.masterSkills = <<>>], by)

\* catch (error) { console.error(...); throw error; }
LoadCSVDataCatch(cache, tables, by) == cache

\* indices of the loads that have returned or thrown
Settled == {i \in 1..Len(loads) : loads[i].pc = "done"}

\* a request reaches  await loadCSVData()
StartLoad(route) ==
  /\ Len(loads) < MaxRequests
  /\ LET start == LoadCSVDataStart(csvDataCache[route])
     IN loads' = Append(loads,
          [route |-> route,
           pc |-> IF start.read THEN "reading" ELSE "done",
           sawCache |-> csvDataCache[route],
           read |-> start.read,
           result |-> start.result,
           status |-> 0,
           after |-> Settled,
           found |-> csvDataCache[route],
           left |-> csvDataCache[route]])
  /\ UNCHANGED <<matcher, lib, call, ret, seen, original, csvData, csvDataCache, clientVars>>

\* Promise.all resolves: the snapshot is built, stored and returned
ReadSucceeds(i) ==
  /\ loads[i].pc = "reading"
  /\ LET route == loads[i].route
         made == LoadCSVDataTry(csvDataCache[route], csvData, i)
     IN /\ csvDataCache' = [csvDataCache EXCEPT ![route] = made]
        /\ loads' = [loads EXCEPT ![i] =
             [@ EXCEPT !.pc = "done", !.result = made,
                       !.found = csvDataCache[route], !.left = made]]
  /\ UNCHANGED <<matcher, lib, call, ret, seen, original, csvData, clientVars>>

\* Promise.all rejects: loadCSVData rethrows, POST's catch answers 500
ReadFails(i) ==
  /\ loads[i].pc = "reading"
  /\ LET route == loads[i].route
         kept == LoadCSVDataCatch(csvDataCache[route], csvData, i)
     IN /\ csvDataCache' = [csvDataCache EXCEPT ![route] = kept]
        /\ loads' = [loads EXCEPT ![i] =
             [@ EXCEPT !.pc = "done", !.status = LoadFailureStatus,
                       !.found = csvDataCache[route], !.left = kept]]
  /\ UNCHANGED <<matcher, lib, call, ret, seen, original, csvData, clientVars>>

CacheInit ==
  /\ csvData \in RouteCsvData
  /\ matcher = NoMatcher
  /\ lib = NoMatcher
  /\ call = NoCall
  /\ ret = NoCall
  /\ seen = Unobserved
  /\ original = NoCall
  /\ NoServer
  /\ NoClient

CacheNext ==
  \/ \E route \in RouteNames : StartLoad(route)
  \/ \E i \in 1..Len(loads) : ReadSucceeds(i)
  \/ \E i \in 1..Len(loads) : ReadFails(i)

SpecCache == CacheInit /\ [][CacheNext]_vars

\* ---------------------------------------------------------------------
\* CompanyAnalysisForm: the component's state, its handlers and the
\* awaits inside them.  A handler reads the state of the render it was
\* created in; what it uses after an await is what it captured before.
\* ---------------------------------------------------------------------

MaxSubmits == 2
MaxUpdates == 2
MaxSaves == 1

TopCount == 4

\* a string of the component: a message, a URL, an id, a localStorage item
Text(s) == [t |-> "text", s |-> s]

LockedMessage ==
  Text("Website analyzer is locked. You can only analyze one company per login session.")

\* the useState defaults
InitialForm ==
  [isLoading |-> FALSE, result |-> Null, error |-> Null,
   topIndustries |-> <<>>, selectedIndustry |-> Null,
   isUpdatingIndustry |-> FALSE, originalResult |-> Null,
   isAnalyzerLocked |-> FALSE]

\* JSON.stringify and JSON.parse of a value that came out of response.json()
JsonStringify(value) == [t |-> "string", json |-> value]

JsonParse(text) == text.json

\* the body of a 200 answer of /api/analyze-company to a submit of `url`
AnalysisResult(url, industry, jobRoles) ==
  [url |-> url, industry |-> industry, jobRoles |-> jobRoles,
   primaryJobRole |-> IF jobRoles = <<>> THEN Undefined ELSE Str(jobRoles[1])]

\* websiteUrl as typed; z.string().url() rejects the first
FormUrls == {Text(""), Text("https://a.example"), Text("https://b.example")}

UrlSchemaAccepts(url) == url.s # ""

\* /api/industries: rows whose names share no word and no substring
FormIndustries ==
  << [id |-> Text("1"), industry_name |-> Finance],
     [id |-> Text("2"), industry_name |-> Healthcare] >>

FormIndustryIds == {FormIndustries[i].id : i \in 1..Len(FormIndustries)}

\* answers of /api/analyze-company
AnalyzeOutcomes ==
  {[ok |-> FALSE]} \cup
  {[ok |-> TRUE, industry |-> i, jobRoles |-> j] :
     i \in {ToLowerCase(Healthcare), Technology},
     j \in {<<>>, <<SoftwareEngineer>>}}

\* answers of /api/industries: the fetch rejects, a status that is not ok,
\* or the rows
IndustriesOutcomes ==
  {[kind |-> "throws"], [kind |-> "notok"]} \cup
  {[kind |-> "ok", rows |-> r] : r \in {<<>>, FormIndustries}}

\* answers of /api/update-analysis for the industry asked for
UpdateOutcomes(industryId) ==
  {[ok |-> FALSE]} \cup
  {[ok |-> TRUE, industry |-> row, jobRoles |-> j] :
     row \in {FormIndustries[i] : i \in {k \in 1..Len(FormIndustries) :
                                          FormIndustries[k].id = industryId}},
     j \in {<<>>, <<GameDeveloper>>}}

\* calculateSimilarity, in tenths, on names that are equal or share nothing
CalculateSimilarity(a, b) ==
  IF ToLowerCase(a) = ToLowerCase(b) THEN 10 ELSE 0

\* map, sort by similarity descending (stable), slice(0, count)
FindTopMatchingIndustries(detectedIndustry, allIndustries, count) ==
  LET withSimilarity == [i \in 1..Len(allIndustries) |->
        [id |-> allIndustries[i].id,
         industry_name |-> allIndustries[i].industry_name,
         similarity |-> CalculateSimilarity(detectedIndustry,
                                            allIndustries[i].industry_name)]]
      IsTop(row) == row.similarity = 10
      IsRest(row) == row.similarity # 10
      sorted == SelectSeq(withSimilarity, IsTop) \o SelectSeq(withSimilarity, IsRest)
  IN SubSeq(sorted, 1, Min(count, Len(sorted)))

\* matchedIndustries.find(i => i.industry_name.toLowerCase() === ...)
DetectedIndustry(matchedIndustries, industry) ==
  LET hits == {i \in 1..Len(matchedIndustries) :
                 ToLowerCase(matchedIndustries[i].industry_name) = ToLowerCase(industry)}
  IN IF hits = {} THEN Undefined
     ELSE matchedIndustries[CHOOSE i \in hits : \A j \in hits : i <= j]

\* the object handed to setResult by updateAnalysisWithIndustry
UpdatedResult(originalResult, updatedData) ==
  [originalResult EXCEPT
     !.industry = updatedData.industry.industry_name,
     !.jobRoles = updatedData.jobRoles,
     !.primaryJobRole = IF updatedData.jobRoles # <<>>
                        THEN Str(updatedData.jobRoles[1]) ELSE @]

SubmitButtonNeverDisabled(url) == FALSE

\* disabled={isLoading || !websiteUrl || isAnalyzerLocked}
SubmitButtonDisabled(url) ==
  form.isLoading \/ url.s = "" \/ form.isAnalyzerLocked

RadioGroupAlwaysRendered ==
  form.result # Null /\ Len(form.topIndustries) > 0

\* result && topIndustries.length > 0 && !isUpdatingIndustry
RadioGroupRendered ==
  /\ form.result # Null
  /\ Len(form.topIndustries) > 0
  /\ ~form.isUpdatingIndustry

\* result && selectedIndustry && !isAnalyzerLocked
SaveButtonRendered ==
  /\ form.result # Null
  /\ form.selectedIndustry # Null
  /\ ~form.isAnalyzerLocked

\* the ids of the RadioGroupItems, the checked one excepted: onValueChange
\* fires when the value changes
RadioGroupItems ==
  {form.topIndustries[i].id : i \in 1..Len(form.topIndustries)}
    \ {form.selectedIndustry}

MountPending == [kind |-> "mount"]

Mounted == MountPending \notin pending

InFlight(kind) == {p \in pending : p.kind = kind}

\* what no handler of the form touches
outsideForm == <<matcher, lib, call, ret, seen, original, csvData, serverVars>>

\* useEffect(() => { ... }, []): the effect of the first render
MountEffect ==
  /\ MountPending \in pending
  /\ form' = IF localStorage.analyzerLocked = Text("true")
             THEN [form EXCEPT
                     !.isAnalyzerLocked = TRUE,
                     !.result = IF localStorage.savedAnalysis # Null
                                THEN JsonParse(localStorage.savedAnalysis)
                                ELSE @]
             ELSE form
  /\ pending' = pending \ {MountPending}
  /\ log' = [log EXCEPT !.everLocked = form'.isAnalyzerLocked]
  /\ UNCHANGED <<localStorage, outsideForm>>

\* history of an onSubmit call made with the analyzer locked: whether it
\* sent a request, and whether it changed anything but the error
LockedSubmit(formAfter, pendingAfter) ==
  [sent |-> pendingAfter # pending,
   onlyError |-> formAfter = [form EXCEPT !.error = LockedMessage]]

OnSubmitNeverLocked == FALSE

\* if (isAnalyzerLocked)
OnSubmitLocked == form.isAnalyzerLocked

\* onSubmit up to its first await; handleSubmit calls it with data the
\* schema accepts
OnSubmit(url) ==
  /\ Mounted
  /\ UrlSchemaAccepts(url)
  /\ IF OnSubmitLocked
     THEN /\ form' = [form EXCEPT !.error = LockedMessage]
          /\ pending' = pending
          /\ log' = [log EXCEPT !.lockedSubmit = LockedSubmit(form', pending')]
     ELSE /\ log.submits < MaxSubmits
          /\ form' = [form EXCEPT
                        !.isLoading = TRUE, !.error = Null, !.result = Null,
                        !.topIndustries = <<>>, !.selectedIndustry = Null,
                        !.originalResult = Null]
          /\ pending' = pending \cup
                          {[kind |-> "analyze", id |-> log.submits + 1, url |-> url]}
          /\ log' = [log EXCEPT
                       !.submits = @ + 1,
                       !.lastUrl = url,
                       !.lockedSubmit =
                          IF form.isAnalyzerLocked
                          THEN LockedSubmit(form', pending')
                          ELSE @]
  /\ UNCHANGED <<localStorage, outsideForm>>

\* onSubmit from the answer of /api/analyze-company to its second await
AnalyzeResponds(p, outcome) ==
  /\ p \in InFlight("analyze")
  /\ IF outcome.ok
     THEN LET analysisResult ==
                AnalysisResult(p.url, outcome.industry, outcome.jobRoles)
          IN /\ form' = [form EXCEPT !.result = analysisResult,
                                     !.originalResult = analysisResult]
             /\ pending' = (pending \ {p}) \cup
                  {[kind |-> "industries", id |-> p.id,
                    analysisResult |-> analysisResult]}
     ELSE /\ form' = [form EXCEPT !.error = Text("Failed to analyze company"),
                                  !.isLoading = FALSE]
          /\ pending' = pending \ {p}
  /\ UNCHANGED <<localStorage, log, outsideForm>>

\* onSubmit from the answer of /api/industries to its end
IndustriesResponds(p, outcome) ==
  /\ p \in InFlight("industries")
  /\ form' =
       IF outcome.kind = "throws"
       THEN [form EXCEPT !.error = Text("An unexpected error occurred"),
                         !.isLoading = FALSE]
       ELSE IF outcome.kind = "notok"
       THEN [form EXCEPT !.isLoading = FALSE]
       ELSE LET matchedIndustries ==
                  FindTopMatchingIndustries(p.analysisResult.industry,
                                            outcome.rows, TopCount)
                detectedIndustry ==
                  DetectedIndustry(matchedIndustries, p.analysisResult.industry)
            IN [form EXCEPT
                  !.topIndustries = matchedIndustries,
                  !.selectedIndustry = IF detectedIndustry # Undefined
                                       THEN detectedIndustry.id ELSE @,
                  !.isLoading = FALSE]
  /\ pending' = pending \ {p}
  /\ UNCHANGED <<localStorage, log, outsideForm>>

\* handleIndustryChange with updateAnalysisWithIndustry up to its await
HandleIndustryChange(industryId) ==
  /\ Mounted
  /\ IF form.originalResult = Null
     THEN /\ form' = [form EXCEPT !.selectedIndustry = industryId]
          /\ UNCHANGED <<pending, log>>
     ELSE /\ log.updates < MaxUpdates
          /\ form' = [form EXCEPT !.selectedIndustry = industryId,
                                  !.isUpdatingIndustry = TRUE]
          /\ pending' = pending \cup
               {[kind |-> "update", id |-> log.updates + 1,
                 industryId |-> industryId,
                 originalResult |-> form.originalResult]}
          /\ log' = [log EXCEPT !.updates = @ + 1]
  /\ UNCHANGED <<localStorage, outsideForm>>

\* updateAnalysisWithIndustry from the answer of /api/update-analysis
UpdateResponds(p, outcome) ==
  /\ p \in InFlight("update")
  /\ form' =
       IF outcome.ok
       THEN [form EXCEPT !.result = UpdatedResult(p.originalResult, outcome),
                         !.isUpdatingIndustry = FALSE]
       ELSE [form EXCEPT !.error = Text("Failed to update analysis"),
                         !.isUpdatingIndustry = FALSE]
  /\ pending' = pending \ {p}
  /\ UNCHANGED <<localStorage, log, outsideForm>>

\* addJobRolesToLibrary awaits a fetch unless it returns at once
UploadsAwaited(jobRoles) ==
  jobRoles # <<>> /\ localStorage.userData # Null

\* saveAnalysis up to the first fetch of addJobRolesToLibrary, or to its
\* end when there is nothing to upload
SaveAnalysis ==
  /\ Mounted
  /\ form.result # Null
  /\ log.saves < MaxSaves
  /\ localStorage' = [localStorage EXCEPT
                        !.savedAnalysis = JsonStringify(form.result),
                        !.analyzerLocked = Text("true")]
  /\ IF UploadsAwaited(form.result.jobRoles)
     THEN /\ pending' = pending \cup {[kind |-> "save", id |-> log.saves + 1]}
          /\ form' = form
     ELSE /\ pending' = pending
          /\ form' = [form EXCEPT !.isAnalyzerLocked = TRUE]
  /\ log' = [log EXCEPT !.saves = @ + 1,
                        !.everLocked = @ \/ form'.isAnalyzerLocked]
  /\ UNCHANGED outsideForm

\* saveAnalysis after the uploads: a failed upload is caught and logged,
\* so the await ends the same way whatever the answers
UploadsSettle(p) ==
  /\ p \in InFlight("save")
  /\ form' = [form EXCEPT !.isAnalyzerLocked = TRUE]
  /\ pending' = pending \ {p}
  /\ log' = [log EXCEPT !.everLocked = TRUE]
  /\ UNCHANGED <<localStorage, outsideForm>>

\* what an earlier life of the component left in localStorage, and whether
\* the login stored userData
Storages ==
  {[savedAnalysis |-> s.savedAnalysis, analyzerLocked |-> s.analyzerLocked,
    userData |-> u] :
     s \in {[savedAnalysis |-> Null, analyzerLocked |-> Null],
            [savedAnalysis |->
               JsonStringify(AnalysisResult(Text("https://old.example"), Finance, <<>>)),
             analyzerLocked |-> Text("true")]},
     u \in {Null, Text("{}")}}

NoLog ==
  [submits |-> 0, updates |-> 0, saves |-> 0, lastUrl |-> Null,
   everLocked |-> FALSE, lockedSubmit |-> Null]

FormInit ==
  /\ form = InitialForm
  /\ localStorage \in Storages
  /\ pending = {MountPending}
  /\ log = NoLog
  /\ csvData = NoFiles
  /\ matcher = NoMatcher
  /\ lib = NoMatcher
  /\ call = NoCall
  /\ ret = NoCall
  /\ seen = Unobserved
  /\ original = NoCall
  /\ NoServer

\* the handlers run when the user works the controls that are rendered
\* and enabled
FormNext ==
  \/ MountEffect
  \/ \E url \in FormUrls : ~SubmitButtonDisabled(url) /\ OnSubmit(url)
  \/ \E industryId \in RadioGroupItems :
       RadioGroupRendered /\ HandleIndustryChange(industryId)
  \/ SaveButtonRendered /\ SaveAnalysis
  \/ \E p \in pending, outcome \in AnalyzeOutcomes : AnalyzeResponds(p, outcome)
  \/ \E p \in pending, outcome \in IndustriesOutcomes : IndustriesResponds(p, outcome)
  \/ \E p \in InFlight("update") :
       \E outcome \in UpdateOutcomes(p.industryId) : UpdateResponds(p, outcome)
  \/ \E p \in pending : UploadsSettle(p)

SpecForm == FormInit /\ [][FormNext]_vars

\* the same, with onSubmit reached when the analyzer is locked as well, which
\* its button does not allow: what keeps the request from being sent is
\* then onSubmit's own check
HandlersNext ==
  \/ MountEffect
  \/ \E url \in FormUrls :
       (form.isAnalyzerLocked \/ ~SubmitButtonDisabled(url)) /\ OnSubmit(url)
  \/ \E industryId \in RadioGroupItems :
       RadioGroupRendered /\ HandleIndustryChange(industryId)
  \/ SaveButtonRendered /\ SaveAnalysis
  \/ \E p \in pending, outcome \in AnalyzeOutcomes : AnalyzeResponds(p, outcome)
  \/ \E p \in pending, outcome \in IndustriesOutcomes : IndustriesResponds(p, outcome)
  \/ \E p \in InFlight("update") :
       \E outcome \in UpdateOutcomes(p.industryId) : UpdateResponds(p, outcome)
  \/ \E p \in pending : UploadsSettle(p)

SpecHandlers == FormInit /\ [][HandlersNext]_vars

----------------------------------------------------------------------------
(* Properties *)

IsIndustryCall == call.op = "findBestIndustry"
IsJobRoleCall == call.op = "findBestJobRole"
IsMatchCall == call.op = "matchCompanyData"

\* a label the guard clauses stop: not a string, empty, or only white space
BlankLabel(l) == ~IsString(l) \/ \A i \in 1..Len(l.s) : l.s[i] = " "

\* the industry matchCompanyData resolved, and the job roles of that industry
ResolvedIndustry == ret.byIndustry.industry
ResolvedRoles == IndustryRoles(matcher, ResolvedIndustry.id)

\* C1: matchCompanyData never throws and always returns a MatchedData, for
\* every industry label and job-role label and every set of valid reference
\* tables, an empty job-role table included.
C1_MatchNeverThrows ==
  IsMatchCall => ~ret.threw /\ ret.value.industry # Undefined

\* C2: every confidence the matcher produces lies in 0..100: the one of
\* findBestIndustry, the one of findBestJobRole, and the overall confidence
\* of the MatchedData of matchCompanyData.
C2_ConfidenceInRange ==
  /\ (IsIndustryCall \/ IsJobRoleCall) /\ ~ret.threw => ret.confidence \in 0..100
  /\ IsMatchCall =>
       /\ ret.byIndustry.confidence \in 0..100
       /\ ret.byJobRole.tier # "none" => ret.byJobRole.confidence \in 0..100
       /\ ~ret.threw => ret.value.confidence \in 0..100

\* C2 witness: a MatchedData whose two operands are both perfect tier-1 hits
C2_Witness ==
  /\ IsMatchCall /\ ~ret.threw
  /\ ret.byIndustry.tier = "fuse" /\ ret.byIndustry.confidence = 100
  /\ ret.byJobRole.tier = "fuse" /\ ret.byJobRole.confidence = 100
  /\ ret.value.confidence = 100

\* C3: with a non-empty candidate set the returned item is one of the
\* candidates: findBestIndustry returns a row of the industry table, and
\* findBestJobRole a job role of the requested industry whenever that
\* industry has a job role; on every tier.
C3_ItemIsCandidate ==
  /\ IsIndustryCall /\ matcher.industries # <<>> =>
       ret.industry \in Range(matcher.industries)
  /\ IsJobRoleCall /\ IndustryRoles(matcher, call.industryId) # <<>> =>
       /\ ret.jobRole \in Range(matcher.jobRoles)
       /\ ret.jobRole.industry_id = call.industryId
  /\ IsMatchCall /\ matcher.industries # <<>> =>
       /\ ResolvedIndustry \in Range(matcher.industries)
       /\ ResolvedRoles # <<>> => ret.byJobRole.jobRole \in Range(ResolvedRoles)

\* C3 witness: a job role of the requested industry was returned although a
\* job role of another industry stands first in the table
C3_Witness ==
  /\ IsJobRoleCall
  /\ Len(matcher.jobRoles) = 2
  /\ matcher.jobRoles[1].industry_id # call.industryId
  /\ ret.jobRole = matcher.jobRoles[2]
  /\ ret.tier = "guard"

\* C4: matching against an empty candidate table returns a defined fallback
\* record with confidence 0, for findBestIndustry on an empty industry table
\* and for findBestJobRole on an empty job-role table.
C4_EmptyTableDefinedFallback ==
  /\ IsIndustryCall /\ matcher.industries = <<>> =>
       ~ret.threw /\ ret.industry # Undefined /\ ret.confidence = 0
  /\ IsJobRoleCall /\ matcher.jobRoles = <<>> =>
       ~ret.threw /\ ret.jobRole # Undefined /\ ret.confidence = 0

\* C5: with a non-empty industry table, an empty, blank or non-string label
\* makes findBestIndustry return the first industry with confidence 0 from
\* its guard clauses, neither matching tier being consulted.
C5_BlankLabelFirstIndustry ==
  IsIndustryCall /\ matcher.industries # <<>> /\ BlankLabel(call.searchTerm) =>
    /\ ~ret.threw
    /\ ret.industry = matcher.industries[1]
    /\ ret.confidence = 0
    /\ ret.tier = "guard"

\* C5 witness: a blank label answered by the guard although tier 1 would
\* have found a different industry
C5_Witness ==
  /\ IsIndustryCall /\ call.searchTerm = Str(<<" ">>)
  /\ Len(matcher.industries) = 2
  /\ lib.fuseIndustries /\ lib.pick = "last"
  /\ ret.industry = matcher.industries[1] /\ ret.confidence = 0

\* C6 as stated: when the resolved industry has no job role, matchCompanyData
\* returns without throwing, with jobRoles = [] and a fallback job role of
\* job-role confidence 15.  (Stated for a non-empty job-role table, where
\* there is a job role to fall back to.)
C6_NoRolesConfidence15 ==
  IsMatchCall /\ ResolvedRoles = <<>> /\ matcher.jobRoles # <<>> =>
    /\ ~ret.threw
    /\ ret.byJobRole.confidence = 15
    /\ ret.value.jobRoles = <<>>

\* C6 amended: when the resolved industry has no job role, the job-role
\* confidence is 0 (the guard clause answers, not the final fallback); with a
\* non-empty job-role table matchCompanyData returns jobRoles = [], the first
\* job role of the table as the resolved one and the overall confidence
\* round(industryConfidence / 2); with an empty job-role table it throws.
C6_NoRolesConfidence0 ==
  IsMatchCall /\ ResolvedRoles = <<>> =>
    /\ ret.byJobRole.confidence = 0
    /\ ret.byJobRole.tier = "guard"
    /\ IF matcher.jobRoles = <<>>
       THEN ret.threw
       ELSE /\ ~ret.threw
            /\ ret.value.jobRoles = <<>>
            /\ ret.byJobRole.jobRole = matcher.jobRoles[1]
            /\ 2 * ret.value.confidence \in
                 {ret.byIndustry.confidence, ret.byIndustry.confidence + 1}

\* C6 witness: a non-blank job-role label, a resolved industry without job
\* roles, a non-empty job-role table and a MatchedData returned
C6_Witness ==
  /\ IsMatchCall /\ ~ret.threw
  /\ ~BlankLabel(call.jobRoleSearch)
  /\ ResolvedIndustry \in Range(matcher.industries)
  /\ ResolvedRoles = <<>>
  /\ ret.value.jobRoles = <<>>
  /\ ret.byJobRole.confidence = 0

\* C7: when no job role has the requested industry_id and the job-role table
\* is not empty, findBestJobRole returns the first job role of the whole
\* table, and the MatchedData has that role's skills and tasks while its
\* jobRoles is empty.
C7_GlobalFirstJobRole ==
  /\ IsJobRoleCall /\ IndustryRoles(matcher, call.industryId) = <<>>
       /\ matcher.jobRoles # <<>> =>
       ~ret.threw /\ ret.jobRole = matcher.jobRoles[1]
  /\ IsMatchCall /\ ResolvedRoles = <<>> /\ matcher.jobRoles # <<>> =>
       /\ ~ret.threw
       /\ ret.value.jobRoles = <<>>
       /\ \A i \in 1..Len(ret.value.skills) :
            ret.value.skills[i].jobrole_id = matcher.jobRoles[1].id
       /\ \A i \in 1..Len(ret.value.tasks) :
            ret.value.tasks[i].jobrole_id = matcher.jobRoles[1].id
       /\ \A s \in Range(matcher.skills) :
            s.jobrole_id = matcher.jobRoles[1].id => s \in Range(ret.value.skills)
       /\ \A t \in Range(matcher.tasks) :
            t.jobrole_id = matcher.jobRoles[1].id => t \in Range(ret.value.tasks)

\* C7 witness: the MatchedData of an industry without job roles carries the
\* skills of a job role of another industry
C7_Witness ==
  /\ IsMatchCall /\ ~ret.threw
  /\ ResolvedIndustry \in Range(matcher.industries)
  /\ ret.value.jobRoles = <<>>
  /\ Len(matcher.jobRoles) = 2
  /\ ret.value.skills # <<>>
  /\ ret.byJobRole.jobRole.industry_id # ResolvedIndustry.id

\* c is the integer nearest to num/den (den > 0), the upper one of two
IsRounded(c, num, den) ==
  (2 * c - 1) * den <= 2 * num /\ 2 * num < (2 * c + 1) * den

\* the ladder of C8 for a result r of findBestIndustry on a non-blank label
IndustryLadder(searchTerm, r) ==
  LET clean == Trim(searchTerm.s)
      hits == FuseSearch(matcher.industries, <<"industry_name", "description">>, clean)
      names == UsableNames([i \in 1..Len(matcher.industries) |->
                              matcher.industries[i].industry_name])
      best == FindBestMatch(clean, names)
  IN /\ ~r.threw
     /\ IF hits # <<>>
        THEN /\ r.industry = hits[1].item
             /\ IsRounded(r.confidence, 1000 - hits[1].score, 10)
        ELSE IF names # <<>> /\ ~best.threw /\ best.bestMatch.rating > 300
        THEN /\ r.industry \in Range(matcher.industries)
             /\ r.industry.industry_name = Str(best.bestMatch.target)
             /\ IsRounded(r.confidence, best.bestMatch.rating, 10)
        ELSE /\ r.industry = matcher.industries[1]
             /\ r.confidence = 20

\* the ladder of C8 for a result r of findBestJobRole on a non-blank label
JobRoleLadder(searchTerm, industryId, r) ==
  LET clean == Trim(searchTerm.s)
      candidates == IndustryRoles(matcher, industryId)
      hits == FuseSearch(candidates,
                <<"role_name", "description", "department", "sub_department">>, clean)
      names == UsableNames([i \in 1..Len(candidates) |-> candidates[i].role_name])
      best == FindBestMatch(clean, names)
  IN /\ ~r.threw
     /\ IF hits # <<>>
        THEN /\ r.jobRole = hits[1].item
             /\ IsRounded(r.confidence, 1000 - hits[1].score, 10)
        ELSE IF names # <<>> /\ ~best.threw /\ best.bestMatch.rating > 200
        THEN /\ r.jobRole \in Range(candidates)
             /\ r.jobRole.role_name = Str(best.bestMatch.target)
             /\ IsRounded(r.confidence, best.bestMatch.rating, 10)
        ELSE /\ r.jobRole = candidates[1]
             /\ r.confidence = 15

\* C8: for a non-blank label and non-empty candidates the matcher is a ladder
\* whose first success wins: a tier-1 hit is returned with confidence
\* round((1 - distance) * 100); otherwise the best tier-2 candidate with
\* confidence round(rating * 100), only if its rating is strictly above the
\* floor (0.3 for industries, 0.2 for job roles); otherwise the first
\* candidate with confidence exactly 20 (industries) or 15 (job roles).
C8_OrderedLadder ==
  /\ IsIndustryCall /\ ~BlankLabel(call.searchTerm) /\ matcher.industries # <<>> =>
       IndustryLadder(call.searchTerm, ret)
  /\ IsJobRoleCall /\ ~BlankLabel(call.searchTerm)
       /\ IndustryRoles(matcher, call.industryId) # <<>> =>
       JobRoleLadder(call.searchTerm, call.industryId, ret)
  /\ IsMatchCall /\ ~BlankLabel(call.industrySearch) /\ matcher.industries # <<>> =>
       /\ IndustryLadder(call.industrySearch, ret.byIndustry)
       /\ ~BlankLabel(call.jobRoleSearch) /\ ResolvedRoles # <<>> =>
            JobRoleLadder(call.jobRoleSearch, ResolvedIndustry.id, ret.byJobRole)

\* C8 witness: tier 1 found nothing and the best tier-2 rating sits exactly
\* on the industry floor, so the first industry came back with confidence 20
\* although tier 2 named the other industry
C8_Witness ==
  /\ IsIndustryCall /\ ~BlankLabel(call.searchTerm)
  /\ Len(matcher.industries) = 2
  /\ ~lib.fuseIndustries /\ ~lib.sim.throws /\ lib.sim.rating = 300
  /\ lib.pick = "last"
  /\ ret.industry = matcher.industries[1] /\ ret.confidence = 20

\* C9: an exception raised inside the similarity computation is not
\* propagated by findBestIndustry or findBestJobRole: it counts as no match
\* and the call ends at the final fallback, the first candidate with
\* confidence 20 (industries) or 15 (job roles).
C9_SimilarityErrorAbsorbed ==
  /\ IsIndustryCall /\ ~BlankLabel(call.searchTerm) /\ ~lib.fuseIndustries
       /\ lib.sim.throws /\ matcher.industries # <<>> =>
       /\ ~ret.threw
       /\ ret.industry = matcher.industries[1]
       /\ ret.confidence = 20
  /\ IsJobRoleCall /\ ~BlankLabel(call.searchTerm) /\ ~lib.fuseJobRoles
       /\ lib.sim.throws /\ IndustryRoles(matcher, call.industryId) # <<>> =>
       /\ ~ret.threw
       /\ ret.jobRole = IndustryRoles(matcher, call.industryId)[1]
       /\ ret.confidence = 15

\* C9 witness: string-similarity raised inside findBestIndustry, the catch
\* block ran and the first of two industries came back with confidence 20
C9_Witness ==
  /\ IsIndustryCall /\ lib.sim.throws
  /\ Len(matcher.industries) = 2
  /\ ~ret.threw /\ ret.caught
  /\ ret.tier = "fallback" /\ ret.confidence = 20

\* C10: the confidence of the MatchedData is round((industryConfidence +
\* jobRoleConfidence) / 2), halves rounded up, the operands being the
\* confidences findBestIndustry returns for the industry label and
\* findBestJobRole for the job-role label within the resolved industry.
C10_OverallConfidence ==
  IsMatchCall /\ ~ret.threw =>
    /\ ret.byIndustry = FindBestIndustry(matcher, call.industrySearch)
    /\ ret.byJobRole = FindBestJobRole(matcher, call.jobRoleSearch,
                                       ret.value.industry.id)
    /\ IsRounded(ret.value.confidence,
                 ret.byIndustry.confidence + ret.byJobRole.confidence, 2)

\* C10 witness: the two confidences add up to an odd number (75 and 20), so
\* the average is a half and is rounded up to 48
C10_Witness ==
  /\ IsMatchCall /\ ~ret.threw
  /\ ret.byIndustry.confidence = 20
  /\ ret.byJobRole.confidence = 75
  /\ ret.value.confidence = 48

\* C11: in every MatchedData, jobRoles is exactly the valid job roles of the
\* resolved industry, and skills and tasks are exactly the valid skills and
\* tasks of the resolved job role: none of another industry or job role, and
\* none missing.
C11_ExactRelatedRows ==
  IsMatchCall /\ ~ret.threw =>
    /\ Range(ret.value.jobRoles) =
         {jr \in Range(matcher.jobRoles) : jr.industry_id = ret.value.industry.id}
    /\ Range(ret.value.skills) =
         {s \in Range(SkillRows) :
            ValidName(s.skill_name) /\ s.jobrole_id = ret.byJobRole.jobRole.id}
    /\ Range(ret.value.tasks) =
         {t \in Range(TaskRows) :
            ValidName(t.task_name) /\ t.jobrole_id = ret.byJobRole.jobRole.id}

\* C11 witness: a MatchedData with one job role out of a table of two, and
\* with the one valid skill of the resolved job role
C11_Witness ==
  /\ IsMatchCall /\ ~ret.threw
  /\ Len(matcher.jobRoles) = 2
  /\ Len(ret.value.jobRoles) = 1
  /\ ret.byJobRole.jobRole.id = "10"
  /\ Len(ret.value.skills) = 1
  /\ Len(ret.value.tasks) = 1

\* b occurs in a as a contiguous run of characters
Contains(a, b) ==
  \E i \in 1..(Len(a) + 1) : \E j \in (i - 1)..Len(a) : SubSeq(a, i, j) = b

\* the rows of a table tied to the returned skills by their lowercased
\* names, one containing the other
RowsTiedToSkills(rows) ==
  {x \in Range(rows) :
     \E i \in 1..Len(ret.value.skills) :
        LET sn == ToLowerCase(ret.value.skills[i].skill_name.s)
            xn == ToLowerCase(x.skill_name.s)
        IN Contains(sn, xn) \/ Contains(xn, sn)}

\* C12: a knowledge-area row, and likewise a master-skill row, is in the
\* output of getRelatedData exactly when, for some skill of the resolved job
\* role, one lowercased name contains the other, whichever is the longer.
C12_SymmetricContainment ==
  IsMatchCall /\ ~ret.threw =>
    /\ Range(ret.value.knowledgeAreas) = RowsTiedToSkills(matcher.skillMaps)
    /\ Range(ret.value.masterSkills) = RowsTiedToSkills(matcher.masterSkills)

\* C12 witness: skill "DA" brought in a knowledge-area row of the shorter
\* name "a" and a master-skill row of the longer name "daM"
C12_Witness ==
  /\ IsMatchCall /\ ~ret.threw
  /\ ret.byJobRole.jobRole.id = "10"
  /\ \E i \in 1..Len(ret.value.knowledgeAreas) : ret.value.knowledgeAreas[i].id = "300"
  /\ \E i \in 1..Len(ret.value.masterSkills) : ret.value.masterSkills[i].id = "400"

IsAnalyzeRequest == call.op = "analyzeCompany"
IsUpdateRequest == call.op = "updateAnalysis"

\* an update-analysis request that re-resolves the last analysis with the
\* id of the industry it matched and its job-role text
IsRoundTrip ==
  /\ IsUpdateRequest
  /\ original # NoCall
  /\ call.industryId = Id(original.matches.industry.id)
  /\ call.originalAnalysis = original.analysis

SameMatches(body, matches) ==
  /\ body.industry = matches.industry
  /\ body.jobRoles = matches.jobRoles
  /\ body.skills = matches.skills
  /\ body.tasks = matches.tasks
  /\ body.knowledgeAreas = matches.knowledgeAreas
  /\ body.masterSkills = matches.masterSkills

\* C14: re-resolving through update-analysis with the id of the industry
\* the original analyze-company call matched, and with the original
\* analysis, returns a MatchedData with the same industry, jobRoles, skills,
\* tasks, knowledgeAreas and masterSkills as the original call.
C14_RoundTrip ==
  IsRoundTrip => ret.status = 200 /\ SameMatches(ret.body, original.matches)

\* the request carried an absolute URL
ValidUrl == IsAnalyzeRequest /\ ~NewURL(call.websiteUrl).threw

\* none of the six parsed tables is empty
NonEmptyTables ==
  /\ csvData.industries # <<>> /\ csvData.jobRoles # <<>>
  /\ csvData.skills # <<>> /\ csvData.tasks # <<>>
  /\ csvData.skillMaps # <<>> /\ csvData.masterSkills # <<>>

\* C15: for an absolute URL and loadable, non-empty reference tables,
\* analyze-company always answers with a successful analysis: an oracle
\* network error, non-OK status, empty content, unparseable reply or reply
\* without industry or jobRole is never returned to the caller as an error.
C15_AlwaysAnalysis ==
  ValidUrl /\ NonEmptyTables => ret.status = 200

\* the analysis of the response came from the offline heuristic
ByHeuristic ==
  /\ IsAnalyzeRequest /\ ret.status = 200
  /\ ret.analysis.path \in {"heuristic", "route"}

\* C16: whenever the offline heuristic replaces the oracle result (the call
\* failed, or its reply was unparseable or lacked industry or jobRole), the
\* analysis has confidence exactly 30, on every fallback path.
C16_HeuristicConfidence30 ==
  ByHeuristic => ret.analysis.confidence = Num(30)

\* C16 as amended: the heuristic analysis has confidence 60 when the oracle
\* returned content that could not be used (no JSON object, JSON that does
\* not parse, or no industry or jobRole), and 30 when the call failed or
\* returned no content and when the route built the analysis itself.
C16_HeuristicConfidenceByContent ==
  ByHeuristic =>
    ret.analysis.confidence =
      IF ret.analysis.path = "heuristic"
         /\ ret.reply.kind \in {"text", "badjson", "json"}
      THEN Num(60) ELSE Num(30)

\* C16 witness: a reply without jobRole answered by the heuristic at 60
C16_Witness ==
  /\ ByHeuristic
  /\ ret.reply.kind = "json" /\ ret.reply.jobRole = Undefined
  /\ ret.analysis.confidence = Num(60)

\* the substring mapping as the specification lists it
ListedRules ==
  << [keywords |-> {<<"h", "e", "a", "l", "t", "h">>}, industry |-> Str(<<"H", "e", "a", "l", "t", "h", "c", "a", "r", "e">>)],
     [keywords |-> {<<"b", "a", "n", "k">>, <<"f", "i", "n", "a", "n", "c", "e">>}, industry |-> Str(<<"F", "i", "n", "a", "n", "c", "e">>)],
     [keywords |-> {<<"e", "d", "u">>, <<"s", "c", "h", "o", "o", "l">>}, industry |-> Str(<<"E", "d", "u", "c", "a", "t", "i", "o", "n">>)],
     [keywords |-> {<<"s", "h", "o", "p">>, <<"s", "t", "o", "r", "e">>, <<"r", "e", "t", "a", "i", "l">>}, industry |-> Str(<<"R", "e", "t", "a", "i", "l">>)],
     [keywords |-> {<<"g", "a", "m", "e">>, <<"g", "a", "m", "i", "n", "g">>}, industry |-> Str(<<"M", "e", "d", "i", "a">>)] >>

\* the rules of the listed mapping that the host of the request meets
ListedHits ==
  {i \in 1..Len(ListedRules) :
     \E k \in ListedRules[i].keywords : Includes(Tail(call.websiteUrl.s), k)}

\* C17: on every fallback path after an oracle failure, the industry label
\* fed to the matcher is given by the hostname through the listed mapping
\* health, bank/finance, edu/school, shop/store/retail, game/gaming, the
\* first matching rule winning.
C17_ListedMapping ==
  ByHeuristic /\ ListedHits # {} =>
    \E i \in ListedHits :
      /\ \A j \in ListedHits : i <= j
      /\ ret.fed = ListedRules[i].industry

\* the websiteUrl of the request is missing or is not an absolute URL
BadUrl ==
  /\ IsAnalyzeRequest
  /\ \/ call.websiteUrl = Undefined
     \/ call.websiteUrl.s = <<>>
     \/ call.websiteUrl.s[1] # Https

\* C18: an analyze-company request whose websiteUrl is missing or does not
\* parse as an absolute URL is rejected with status 400 before the reference
\* data is loaded, the oracle is called, or any matching is done.
C18_BadUrlRejectedFirst ==
  BadUrl => ret.status = 400 /\ ret.steps = {}

\* C18 witness: a URL without a scheme rejected by a server that has
\* answered an analysis before
C18_Witness ==
  /\ BadUrl /\ call.websiteUrl = Str(<<"s", "h", "o", "p">>)
  /\ ret.status = 400
  /\ original # NoCall

\* the update-analysis request lacks the industry id, names no industry of
\* the table, or lacks the original job-role label
BadUpdate ==
  /\ IsUpdateRequest
  /\ \/ call.industryId = Undefined
     \/ \A i \in 1..Len(csvData.industries) :
           csvData.industries[i].id # call.industryId.id
     \/ call.originalAnalysis = Undefined
     \/ ~Truthy(call.originalAnalysis.jobRole)

\* C19: an update-analysis request with a missing industryId, an industryId
\* of no industry, or a missing original job-role label is rejected with a
\* 4xx status before any matching, never answered with a 5xx or a match.
C19_BadUpdateRejected ==
  BadUpdate =>
    /\ ret.status \in 400..499
    /\ ret.steps \cap {"findBestJobRole", "matchCompanyData"} = {}

\* a complete update-analysis request for an industry of the table that no
\* job role row names
ZeroRoleUpdate ==
  /\ IsUpdateRequest /\ ~BadUpdate
  /\ \A i \in 1..Len(csvData.jobRoles) :
        csvData.jobRoles[i].industry_id # call.industryId.id

\* C20: an update-analysis request for an existing industry with zero job
\* roles is answered with a MatchedData with empty jobRoles, never with an
\* error response.
C20_ZeroRolesMatchedData ==
  ZeroRoleUpdate => ret.status = 200 /\ ret.body.jobRoles = <<>>

\* the analyze-company route answered with an analysis
Analyzed == IsAnalyzeRequest /\ ret.status = 200

\* C28: in every analyze-company response the primary job role is the job
\* role whose skills and tasks are returned: every skill and task of matches
\* has jobrole_id equal to matches.primaryJobRole.id.
C28_PrimaryRoleOwnsSkills ==
  Analyzed =>
    \A x \in Range(ret.matches.skills) \cup Range(ret.matches.tasks) :
      /\ ret.matches.primaryJobRole # Undefined
      /\ x.jobrole_id = ret.matches.primaryJobRole.id

\* C29: the top-level confidence of every successful analyze-company
\* response is an integer in 0..100 no greater than the MatchedData
\* confidence, for every reply that passes the adapter's validation, also
\* one whose confidence is missing, not a number or out of range.
C29_ResponseConfidence ==
  Analyzed =>
    /\ ret.confidence.t = "number"
    /\ ret.confidence.n \in 0..100
    /\ ret.confidence.n <= ret.matched

\* parseCSVData has answered
Parsed == call.op = "parseCSVData" /\ ret # NoCall

\* s without the white space at its two ends
Strip(s) ==
  LET inked == {i \in 1..Len(s) : s[i] \notin {" ", "\n"}}
  IN IF inked = {} THEN <<>>
     ELSE SubSeq(s, CHOOSE i \in inked : \A j \in inked : i <= j,
                    CHOOSE i \in inked : \A j \in inked : i >= j)

\* the pieces of s between the occurrences of sep, in order
Pieces(s, sep) ==
  LET cuts == {0, Len(s) + 1} \cup {i \in 1..Len(s) : s[i] = sep}
      cut(k) == CHOOSE p \in cuts : Cardinality({c \in cuts : c < p}) = k
  IN [k \in 1..(Cardinality(cuts) - 1) |-> SubSeq(s, cut(k - 1) + 1, cut(k) - 1)]

\* the lines of a text that are not blank
NonBlankLines(s) == SelectSeq(Pieces(s, "\n"), LAMBDA l : Strip(l) # <<>>)

\* the fields of a line, each without the white space around it
Fields(line) ==
  LET pieces == Pieces(Strip(line), ",")
  IN [i \in 1..Len(pieces) |-> Strip(pieces[i])]

\* the row a data line stands for under a header line
ExpectedRow(header, line) ==
  [h \in Range(Fields(header)) |->
     LET col == CHOOSE i \in 1..Len(Fields(header)) :
                  /\ Fields(header)[i] = h
                  /\ \A j \in 1..Len(Fields(header)) : Fields(header)[j] = h => j <= i
     IN IF col <= Len(Fields(line)) THEN Str(Fields(line)[col]) ELSE Str(<<>>)]

\* the rows of a text: one per data line, but for the rows all of whose
\* values are empty
ExpectedRows(s) ==
  LET lines == NonBlankLines(s)
      rows == [i \in 1..(Len(lines) - 1) |-> ExpectedRow(lines[1], lines[i + 1])]
  IN SelectSeq(rows, LAMBDA r : \E h \in DOMAIN r : r[h] # Str(<<>>))

\* C23: parseCSVData never throws; input that is not a string, is empty or
\* has a header only yields no row; otherwise the first non-blank line is
\* the header, every row has exactly the header names as keys, a missing
\* trailing field is the empty string, blank lines are skipped and a row
\* whose fields are all empty is dropped.
C23_ParseCSVData ==
  Parsed =>
    /\ ~ret.threw
    /\ IF ~IsString(call.csvContent) \/ Len(NonBlankLines(call.csvContent.s)) < 2
       THEN ret.rows = <<>>
       ELSE /\ ret.rows = ExpectedRows(call.csvContent.s)
            /\ \A i \in 1..Len(ret.rows) :
                 DOMAIN ret.rows[i] = Range(Fields(NonBlankLines(call.csvContent.s)[1]))

\* C23 witness: header "a,a", and a line with one field that yields a row
\* whose value is the padding
C23_Witness ==
  /\ Parsed
  /\ call.csvContent = Str(<<"a", ",", " ", "\n", "\n", "a">>)
  /\ Len(ret.rows) = 1

\* loads that returned tables
Loaded == {i \in 1..Len(loads) : loads[i].pc = "done" /\ loads[i].result # Null}

\* C21: a loadCSVData call that finds its route's cache set reads no file
\* and returns the cached snapshot; a set cache is never unset and its
\* content never changes; and all callers of a route that received tables,
\* concurrent first loads included, hold tables of the same content, which
\* is the content the cache holds.
C21_CachedOnce ==
  /\ \A i \in 1..Len(loads) :
       /\ loads[i].sawCache # Null =>
            /\ ~loads[i].read
            /\ loads[i].pc = "done"
            /\ loads[i].result = loads[i].sawCache
       /\ (loads[i].pc = "done" /\ loads[i].found # Null) =>
            /\ loads[i].left # Null
            /\ loads[i].left.tables = loads[i].found.tables
  /\ \A i \in Loaded :
       /\ csvDataCache[loads[i].route] # Null
       /\ csvDataCache[loads[i].route].tables = loads[i].result.tables
       /\ \A j \in Loaded :
            loads[j].route = loads[i].route =>
              loads[j].result.tables = loads[i].result.tables

\* two first loads of one route raced and both stored a snapshot, and a
\* later call was served from the cache
C21_Witness ==
  \E i, j, k \in Loaded :
    /\ i < j
    /\ loads[i].route = loads[j].route /\ loads[k].route = loads[i].route
    /\ loads[i].read /\ loads[j].read
    /\ ~loads[k].read

\* C22: a loadCSVData call whose read fails is answered with status 500
\* and leaves its route's cache as it found it, which is unset or a whole
\* snapshot, never a partial one; and every call that finds the cache
\* unset reads the files.
C22_FailedLoad ==
  /\ \A i \in Settled :
       loads[i].status = LoadFailureStatus =>
         /\ loads[i].result = Null
         /\ loads[i].left = loads[i].found
  /\ \A i \in 1..Len(loads) :
       /\ loads[i].sawCache = Null => loads[i].read
       /\ (loads[i].pc = "done" /\ loads[i].result = Null) =>
            loads[i].status = LoadFailureStatus
  /\ \A route \in RouteNames :
       csvDataCache[route] # Null => csvDataCache[route].tables = csvData

\* a load failed with the cache unset, and a request that came after it
\* read the files again and received the tables
C22_Witness ==
  \E i \in Settled, j \in Loaded :
    /\ loads[i].status = LoadFailureStatus
    /\ loads[i].left = Null
    /\ i \in loads[j].after
    /\ loads[j].route = loads[i].route
    /\ loads[j].read

\* C24: once setIsAnalyzerLocked(true) has run, at mount or in saveAnalysis,
\* isAnalyzerLocked stays true; and an onSubmit call made while it is true
\* sends no analyze-company request and changes nothing of the form's state
\* but the error, which becomes the locked message.
C24_LockedForGood ==
  /\ log.everLocked => form.isAnalyzerLocked
  /\ log.lockedSubmit # Null =>
       /\ ~log.lockedSubmit.sent
       /\ log.lockedSubmit.onlyError

\* saveAnalysis locked the analyzer with a result on display, and onSubmit
\* was called after that
C24_Witness ==
  /\ log.lockedSubmit # Null
  /\ log.saves > 0
  /\ form.isAnalyzerLocked
  /\ form.result # Null
  /\ form.error = LockedMessage

\* C25: in the re-selection flow at most one update-analysis request is in
\* flight, isUpdatingIndustry is true exactly while one is, and so it is
\* false whenever every request has been answered, with success or failure.
C25_SequentialUpdates ==
  /\ Cardinality(InFlight("update")) <= 1
  /\ form.isUpdatingIndustry <=> InFlight("update") # {}

\* two submits were made and two update-analysis requests were sent and
\* answered, the last one with a failure, and the flag is false again
C25_Witness ==
  /\ log.updates >= 2
  /\ log.submits >= 2
  /\ InFlight("update") = {}
  /\ ~form.isUpdatingIndustry
  /\ form.error = Text("Failed to update analysis")

\* the mount effect has run and no request or upload is awaited
FormSettled == Mounted /\ pending = {}

\* C26: whenever isAnalyzerLocked is true, localStorage holds savedAnalysis
\* and the result of the form is the analysis it parses to.
C26_LockedShowsSaved ==
  form.isAnalyzerLocked =>
    /\ localStorage.savedAnalysis # Null
    /\ form.result = JsonParse(localStorage.savedAnalysis)

\* C27: when nothing is awaited any more and a result is shown after a
\* submit, the result is an analysis of the URL submitted last.
C27_ResultOfLastSubmit ==
  (FormSettled /\ log.lastUrl # Null /\ form.result # Null) =>
    form.result.url = log.lastUrl

====
